---- MODULE Spec2Model ----
(***************************************************************************)
(* The summary cache protocol of backend/main.py: the /api/summary handler *)
(* get_summary, the "reviews" collection it queries and the                *)
(* "place_summaries" collection it reads and upserts.                      *)
(*                                                                         *)
(* Strings are finite sequences of one-character strings, so that          *)
(* str.strip() and str.join() are computed and not assumed.  A request is  *)
(* one run of get_summary; each blocking call it makes (the reviews query, *)
(* the cache read, the generation call, the cache write) is one step, so   *)
(* that two requests can overlap the way two Flask requests do.            *)
(***************************************************************************)
EXTENDS Integers, Sequences, FiniteSets, TLC

(* ---------------------------------------------------------------- bounds *)

\* Largest number of review documents in the store, over all places.
MaxReviews == 4
\* The same, while reviews are also removed and made empty.
MaxReviewsSeq == 3
\* The same, while two requests run concurrently.
MaxReviewsConc == 1
\* Largest created_at value of a review.
MaxTs == 2
\* The same, while reviews are also removed and made empty.
MaxTsSeq == 1
\* Largest value of the server clock.
MaxClock == 1

(* ------------------------------------------------------ program constants *)

\* .limit(50) of the reviews query, scaled down to keep the store small.
FetchLimit == 3
\* written[:20], scaled down with the same order (PromptLimit < FetchLimit).
PromptLimit == 2

SUMMARY_MODEL == "gpt-4o-mini"
\* The fixed instructions that open the prompt, as one token.
PREAMBLE == "REVIEWS:"
\* The separator "\n---\n", as one token.
DELIM == "---"

(* ----------------------------------------------------------------- domains *)

\* The request slots: two requests can be in flight at once.
Calls == {"r1", "r2"}
Places == {<<"p">>, <<"q">>}
\* A created_at that is null (None in Python); Firestore sorts null lowest.
NoTs == -1
Timestamps == {NoTs} \cup (0..MaxTs)
\* Values of created_at and of text in the store that one request reads.
ReviewDocs ==
    [text : {<<" ">>, <<"a">>, <<" ", "b">>, <<"c", " ">>}, created_at : Timestamps]
\* Values of resp.output_text.
OutputTexts == {<<" ">>, <<"s">>, <<"t", " ">>}

(* ------------------------------------------------------------ pure helpers *)

RECURSIVE LStrip(_)
LStrip(s) == IF s # <<>> /\ Head(s) = " " THEN LStrip(Tail(s)) ELSE s

RECURSIVE RStrip(_)
RStrip(s) ==
    IF s # <<>> /\ s[Len(s)] = " " THEN RStrip(SubSeq(s, 1, Len(s) - 1)) ELSE s

\* Mutant of Strip: the string is used as it came.
StripOmitted(s) == s

\* str.strip()
Strip(s) == RStrip(LStrip(s))

\* seq[:n]
Take(seq, n) == SubSeq(seq, 1, IF Len(seq) < n THEN Len(seq) ELSE n)

\* Python truthiness of a created_at value: None and 0 are falsy.
Truthy(ts) == ts # NoTs /\ ts # 0

\* sep.join(texts)
RECURSIVE Join(_, _)
Join(texts, sep) ==
    IF texts = <<>> THEN <<>>
    ELSE IF Len(texts) = 1 THEN texts[1]
    ELSE texts[1] \o <<sep>> \o Join(Tail(texts), sep)

(* ------------------------------------------------------------------- state *)

VARIABLES
    reviews,       \* place -> its review documents, in the order of the query
    cache,         \* the place_summaries collection: place -> document
    clock,         \* the server's time, stamped by SERVER_TIMESTAMP
    pc,            \* request -> where it is in get_summary
    arg,           \* request -> its place_id query parameter, as sent
    place_id,      \* request -> its place_id, stripped
    written,       \* request -> its list of non-empty review texts
    latest_ts,     \* request -> its latest_ts
    prompt,        \* request -> the prompt it passed to the generation call
    summary_text,  \* request -> its summary_text
    resp,          \* request -> the response it returned
    ops,           \* request -> how often it used each collaborator
    \* History variables: they record what happened and steer nothing.
    recording,     \* whether the history is recorded in this behaviour
    tracing,       \* whether docs and source are recorded in this behaviour
    docs,          \* request -> the documents its reviews query returned
    source,        \* place -> what the last set() on its document came from
    prev,          \* place -> the last completed request, while it still applies
    trig,          \* place -> what the last change of its reviews did
    since,         \* request -> prev of its place when it arrived
    before,        \* request -> the place_summaries collection when it arrived
    lastSet,       \* place -> the data of the last set() on its cache document
    tag            \* request -> trig of its place when it queried the reviews

vars == <<reviews, cache, clock, pc, arg, place_id, written, latest_ts, prompt,
          summary_text, resp, ops, recording, tracing, docs, source, prev,
          trig, since, before, lastSet, tag>>

history == <<recording, tracing, docs, source, prev, trig, since, before,
             lastSet, tag>>

locals == <<arg, place_id, written, latest_ts, prompt, summary_text>>

NoOps == [query |-> 0, get |-> 0, gen |-> 0, set |-> 0]
NoResp == [status |-> 0]
NoPrev == [valid |-> FALSE, summary |-> <<>>, gen |-> 0]

TotalReviews == Len(reviews[<<"p">>]) + Len(reviews[<<"q">>])

StartWith(store) ==
    /\ reviews = store
    /\ cache = [p \in {} |-> 0]
    /\ clock = 0
    /\ pc = [c \in Calls |-> "idle"]
    /\ arg = [c \in Calls |-> <<>>]
    /\ place_id = [c \in Calls |-> <<>>]
    /\ docs = [c \in Calls |-> <<>>]
    /\ written = [c \in Calls |-> <<>>]
    /\ latest_ts = [c \in Calls |-> NoTs]
    /\ prompt = [c \in Calls |-> <<>>]
    /\ summary_text = [c \in Calls |-> <<>>]
    /\ resp = [c \in Calls |-> NoResp]
    /\ ops = [c \in Calls |-> NoOps]
    /\ prev = [p \in Places |-> NoPrev]
    /\ trig = [p \in Places |-> "none"]
    /\ since = [c \in Calls |-> NoPrev]
    /\ before = [c \in Calls |-> cache]
    /\ lastSet = cache
    /\ source = cache
    /\ tag = [c \in Calls |-> "none"]

\* No reviews yet.
Empty == [p \in Places |-> <<>>]

Init == StartWith(Empty) /\ recording = FALSE /\ tracing = FALSE

\* The source of every cache document is recorded, the rest of the history
\* is not.
InitTrace == StartWith(Empty) /\ recording = FALSE /\ tracing = TRUE

\* The history is recorded while requests run one at a time.
InitSeq == StartWith(Empty) /\ recording = TRUE /\ tracing = FALSE

(* ----------------------------------------------------------- review store *)

\* The order of the query: created_at descending, null last.
InOrder(seq) ==
    \A i \in 1..(Len(seq) - 1) : seq[i].created_at >= seq[i + 1].created_at

InsertAt(seq, i, d) == SubSeq(seq, 1, i - 1) \o <<d>> \o SubSeq(seq, i, Len(seq))

RemoveAt(seq, i) == SubSeq(seq, 1, i - 1) \o SubSeq(seq, i + 1, Len(seq))

\* reviews.where("place_id", "==", p).order_by("created_at", DESCENDING).limit(50)
QueryReviews(p) ==
    IF p \in DOMAIN reviews THEN Take(reviews[p], FetchLimit) ELSE <<>>

(* ------------------------------------------------------ get_summary, pure *)

\* Mutant of Written: the test "if text" is missing.
WrittenUnfiltered(ds) == [i \in 1..Len(ds) |-> Strip(ds[i].text)]

\* The loop over docs: the list of non-empty stripped texts.
RECURSIVE Written(_)
Written(ds) ==
    IF ds = <<>> THEN <<>>
    ELSE LET text == Strip(Head(ds).text)
         IN  (IF text # <<>> THEN <<text>> ELSE <<>>) \o Written(Tail(ds))

\* The loop over docs: latest_ts, starting from acc.
RECURSIVE LatestTs(_, _)
LatestTs(ds, acc) ==
    IF ds = <<>> THEN acc
    ELSE LET ts == Head(ds).created_at
         IN  LatestTs(Tail(ds),
                      IF Truthy(ts) /\ (acc = NoTs \/ ts > acc) THEN ts ELSE acc)

\* Mutant of CacheValid: the review count is not compared.
CacheValidIgnoringCount(doc, count, latest) ==
    /\ Strip(doc.summary) # <<>>
    /\ doc.source_latest_review_at = latest

\* Mutant of CacheValid: the latest review time is not compared.
CacheValidIgnoringLatest(doc, count, latest) ==
    /\ Strip(doc.summary) # <<>>
    /\ doc.source_review_count = count

\* The cache document is valid for the current written-review state.
CacheValid(doc, count, latest) ==
    /\ Strip(doc.summary) # <<>>
    /\ doc.source_review_count = count
    /\ doc.source_latest_review_at = latest

\* Mutant of RecentTexts: the list is not cut.
RecentTextsUncut(w) == w

\* recent_texts = written[:20]
RecentTexts(w) == Take(w, PromptLimit)

BuildPrompt(w) == <<PREAMBLE>> \o Join(RecentTexts(w), DELIM)

\* Mutant of MergeDoc: a field the document already has is kept.
MergeDocKeepingOld(old, data) ==
    [f \in (DOMAIN old) \cup (DOMAIN data) |->
        IF f \in DOMAIN old THEN old[f] ELSE data[f]]

\* DocumentReference.set(data, merge=True) on one document.
MergeDoc(old, data) ==
    [f \in (DOMAIN old) \cup (DOMAIN data) |->
        IF f \in DOMAIN data THEN data[f] ELSE old[f]]

\* Mutant of SetMerge: every place shares the document of place p.
SetMergeSharedDoc(store, id, data) ==
    [x \in (DOMAIN store) \cup {<<"p">>} |->
        IF x = <<"p">>
        THEN (IF x \in DOMAIN store THEN MergeDoc(store[x], data) ELSE data)
        ELSE store[x]]

\* Mutant of SetMerge: the collection is replaced by the one document.
SetMergeDroppingOthers(store, id, data) == [x \in {id} |-> data]

\* collection.document(id).set(data, merge=True)
SetMerge(store, id, data) ==
    [x \in (DOMAIN store) \cup {id} |->
        IF x = id
        THEN (IF id \in DOMAIN store THEN MergeDoc(store[id], data) ELSE data)
        ELSE store[x]]

(* ------------------------------------------------- changes of the reviews *)

\* The reviews of p become new: prev stops applying when the fetched reviews
\* differ, and trig records what the change did with respect to the cache.
Changed(p, new, what) ==
    /\ reviews' = [reviews EXCEPT ![p] = new]
    /\ prev' = [prev EXCEPT ![p] =
                  IF Take(new, FetchLimit) = QueryReviews(p) THEN @ ELSE NoPrev]
    /\ trig' = [trig EXCEPT ![p] = IF recording THEN what ELSE "none"]
    /\ UNCHANGED <<cache, clock, pc, locals, resp, ops, recording, tracing,
                   docs, source, since, before, lastSet, tag>>

\* A client adds a review document.  Documents with equal created_at are
\* ordered by their (random) document id: any position among its equals.
AppendReview(p, text, ts) ==
    /\ TotalReviews < MaxReviews
    /\ \E i \in 1..(Len(reviews[p]) + 1) :
          LET new == InsertAt(reviews[p], i, [text |-> text, created_at |-> ts])
          IN  /\ InOrder(new)
              /\ Changed(p, new,
                    IF /\ p \in DOMAIN cache
                       /\ cache[p].source_latest_review_at # NoTs
                       /\ ts > cache[p].source_latest_review_at
                    THEN "newer" ELSE "none")

\* What a removal or blanking did: the count differs from the stored one.
CountChange(p, new) ==
    IF /\ p \in DOMAIN cache
       /\ Len(Written(Take(new, FetchLimit))) # cache[p].source_review_count
    THEN "count" ELSE "none"

\* A review document is deleted.
RemoveReview(p, i) ==
    /\ i \in 1..Len(reviews[p])
    /\ LET new == RemoveAt(reviews[p], i)
       IN  Changed(p, new, CountChange(p, new))

\* The text of a review document is made empty.
BlankReview(p, i) ==
    /\ i \in 1..Len(reviews[p])
    /\ Strip(reviews[p][i].text) # <<>>
    /\ LET new == [reviews[p] EXCEPT ![i].text = <<>>]
       IN  Changed(p, new, CountChange(p, new))

(* ----------------------------------------------------- get_summary, steps *)

Bump(c, op) == [ops EXCEPT ![c][op] = @ + 1]

\* Request c answers r: prev of its place now describes this request.
Respond(c, r) ==
    /\ pc' = [pc EXCEPT ![c] = "done"]
    /\ resp' = [resp EXCEPT ![c] = r]
    /\ prev' = [p \in Places |->
                  IF p # place_id[c] THEN prev[p]
                  ELSE IF recording /\ r.status = 200
                  THEN [valid |-> TRUE, summary |-> r.summary, gen |-> ops'[c].gen]
                  ELSE NoPrev]

\* The request arrives: place_id is read and checked.
Request(c, a) ==
    /\ pc[c] = "idle"
    /\ arg' = [arg EXCEPT ![c] = a]
    /\ LET id == Strip(a)
       IN  /\ place_id' = [place_id EXCEPT ![c] = id]
           /\ IF id = <<>>
              THEN /\ pc' = [pc EXCEPT ![c] = "done"]
                   /\ resp' = [resp EXCEPT ![c] =
                                 [status |-> 400, error |-> "place_id is required"]]
                   /\ UNCHANGED since
              ELSE /\ pc' = [pc EXCEPT ![c] = "query"]
                   /\ since' = [since EXCEPT ![c] =
                                  IF id \in Places THEN prev[id] ELSE NoPrev]
                   /\ UNCHANGED resp
    /\ before' = [before EXCEPT ![c] = IF recording THEN cache ELSE @]
    /\ UNCHANGED <<reviews, cache, clock, docs, written, latest_ts, prompt,
                   summary_text, ops, recording, tracing, source, prev, trig,
                   lastSet, tag>>

\* 1) The reviews query answers; written and latest_ts are computed.
Query(c) ==
    /\ pc[c] = "query"
    /\ ops' = Bump(c, "query")
    /\ tag' = [tag EXCEPT ![c] =
                 IF place_id[c] \in Places THEN trig[place_id[c]] ELSE "none"]
    /\ trig' = [p \in Places |-> IF p = place_id[c] THEN "none" ELSE trig[p]]
    /\ LET got == QueryReviews(place_id[c])
           w == Written(got)
       IN  /\ docs' = [docs EXCEPT ![c] = IF tracing THEN got ELSE @]
           /\ written' = [written EXCEPT ![c] = w]
           /\ latest_ts' = [latest_ts EXCEPT ![c] = LatestTs(got, NoTs)]
           /\ IF Len(w) = 0
              THEN Respond(c, [status |-> 200, summary |-> <<>>,
                               source_review_count |-> 0, cached |-> TRUE])
              ELSE /\ pc' = [pc EXCEPT ![c] = "cache_get"]
                   /\ UNCHANGED <<resp, prev>>
    /\ UNCHANGED <<reviews, cache, clock, arg, place_id, prompt, summary_text,
                   recording, tracing, source, since, before, lastSet>>

\* 2) The cache document is read; a valid one is returned.
CacheGet(c) ==
    /\ pc[c] = "cache_get"
    /\ ops' = Bump(c, "get")
    /\ LET id == place_id[c]
           hit == /\ id \in DOMAIN cache
                  /\ CacheValid(cache[id], Len(written[c]), latest_ts[c])
       IN  IF hit
           THEN /\ Respond(c, [status |-> 200,
                               summary |-> Strip(cache[id].summary),
                               source_review_count |-> cache[id].source_review_count,
                               cached |-> TRUE,
                               updated_at |-> cache[id].updated_at])
                /\ UNCHANGED prompt
           ELSE /\ pc' = [pc EXCEPT ![c] = "generate"]
                /\ prompt' = [prompt EXCEPT ![c] = BuildPrompt(written[c])]
                /\ UNCHANGED <<resp, prev>>
    /\ UNCHANGED <<reviews, cache, clock, arg, place_id, docs, written,
                   latest_ts, summary_text, recording, tracing, source, trig,
                   since, before, lastSet, tag>>

\* 3) The generation call answers with output_text = out.
Generate(c, out) ==
    /\ pc[c] = "generate"
    /\ summary_text' = [summary_text EXCEPT ![c] = Strip(out)]
    /\ pc' = [pc EXCEPT ![c] = "cache_set"]
    /\ ops' = Bump(c, "gen")
    /\ UNCHANGED <<reviews, cache, clock, arg, place_id, written, latest_ts,
                   prompt, resp, history>>

\* Mutant of CacheData: the fingerprint stored is that of the reviews at the
\* time of the set().
CacheDataFreshFingerprint(c) ==
    [place_id |-> place_id[c],
     summary |-> summary_text[c],
     model |-> SUMMARY_MODEL,
     updated_at |-> clock,
     source_review_count |-> Len(Written(QueryReviews(place_id[c]))),
     source_latest_review_at |-> LatestTs(QueryReviews(place_id[c]), NoTs)]

\* Mutant of CacheData: the time of the set() is stored as the latest review
\* time.
CacheDataStampAsLatest(c) ==
    [place_id |-> place_id[c],
     summary |-> summary_text[c],
     model |-> SUMMARY_MODEL,
     updated_at |-> clock,
     source_review_count |-> Len(written[c]),
     source_latest_review_at |-> clock]

\* Mutant of CacheData: the count stored is that of the texts in the prompt.
CacheDataPromptCount(c) ==
    [place_id |-> place_id[c],
     summary |-> summary_text[c],
     model |-> SUMMARY_MODEL,
     updated_at |-> clock,
     source_review_count |-> Len(RecentTexts(written[c])),
     source_latest_review_at |-> latest_ts[c]]

\* The document written by step 4.
CacheData(c) ==
    [place_id |-> place_id[c],
     summary |-> summary_text[c],
     model |-> SUMMARY_MODEL,
     updated_at |-> clock,
     source_review_count |-> Len(written[c]),
     source_latest_review_at |-> latest_ts[c]]

\* 4) The cache document is stored and the new summary returned.
CacheSet(c) ==
    /\ pc[c] = "cache_set"
    /\ ops' = Bump(c, "set")
    /\ cache' = SetMerge(cache, place_id[c], CacheData(c))
    /\ Respond(c, [status |-> 200, summary |-> summary_text[c],
                   source_review_count |-> Len(written[c]), cached |-> FALSE])
    /\ lastSet' = [x \in (DOMAIN lastSet) \cup {place_id[c]} |->
                      IF x = place_id[c] THEN CacheData(c) ELSE lastSet[x]]
    /\ source' = IF tracing
                 THEN [x \in (DOMAIN source) \cup {place_id[c]} |->
                         IF x = place_id[c]
                         THEN [docs |-> docs[c], prompt |-> prompt[c],
                               summary |-> summary_text[c]]
                         ELSE source[x]]
                 ELSE source
    /\ UNCHANGED <<reviews, clock, locals, recording, tracing, docs, trig,
                   since, before, tag>>

\* Mutant of Except: a failed generation call is made once more.
ExceptRetrying(c) ==
    /\ pc[c] \in {"query", "cache_get", "generate", "cache_set"}
    /\ ops' = Bump(c, CASE pc[c] = "query" -> "query"
                        [] pc[c] = "cache_get" -> "get"
                        [] pc[c] = "generate" -> "gen"
                        [] pc[c] = "cache_set" -> "set")
    /\ IF pc[c] = "generate" /\ ops[c].gen = 0
       THEN UNCHANGED <<pc, resp, prev>>
       ELSE Respond(c, [status |-> 500, error |-> pc[c]])
    /\ UNCHANGED <<reviews, cache, clock, locals, recording, tracing, docs,
                   source, trig, since, before, lastSet, tag>>

\* Mutant of Except: a failed generation stores an empty summary.
ExceptStoringEmpty(c) ==
    /\ pc[c] \in {"query", "cache_get", "generate", "cache_set"}
    /\ ops' = Bump(c, CASE pc[c] = "query" -> "query"
                        [] pc[c] = "cache_get" -> "get"
                        [] pc[c] = "generate" -> "gen"
                        [] pc[c] = "cache_set" -> "set")
    /\ cache' = IF pc[c] = "generate"
                THEN SetMerge(cache, place_id[c], CacheData(c))
                ELSE cache
    /\ Respond(c, [status |-> 500, error |-> pc[c]])
    /\ UNCHANGED <<reviews, clock, locals, recording, tracing, docs, source,
                   trig, since, before, lastSet, tag>>

\* A collaborator raises: the except clause answers 500 with the cause.
Except(c) ==
    /\ pc[c] \in {"query", "cache_get", "generate", "cache_set"}
    /\ ops' = Bump(c, CASE pc[c] = "query" -> "query"
                        [] pc[c] = "cache_get" -> "get"
                        [] pc[c] = "generate" -> "gen"
                        [] pc[c] = "cache_set" -> "set")
    /\ Respond(c, [status |-> 500, error |-> pc[c]])
    /\ UNCHANGED <<reviews, cache, clock, locals, recording, tracing, docs,
                   source, trig, since, before, lastSet, tag>>

\* The response has been delivered; the slot serves the next request.
Return(c) ==
    /\ pc[c] = "done"
    /\ pc' = [pc EXCEPT ![c] = "idle"]
    /\ arg' = [arg EXCEPT ![c] = <<>>]
    /\ place_id' = [place_id EXCEPT ![c] = <<>>]
    /\ docs' = [docs EXCEPT ![c] = <<>>]
    /\ written' = [written EXCEPT ![c] = <<>>]
    /\ latest_ts' = [latest_ts EXCEPT ![c] = NoTs]
    /\ prompt' = [prompt EXCEPT ![c] = <<>>]
    /\ summary_text' = [summary_text EXCEPT ![c] = <<>>]
    /\ resp' = [resp EXCEPT ![c] = NoResp]
    /\ ops' = [ops EXCEPT ![c] = NoOps]
    /\ since' = [since EXCEPT ![c] = NoPrev]
    /\ before' = [before EXCEPT ![c] = IF recording THEN cache ELSE @]
    /\ tag' = [tag EXCEPT ![c] = "none"]
    /\ UNCHANGED <<reviews, cache, clock, recording, tracing, source, prev,
                   trig, lastSet>>

\* The server's time passes.
Tick ==
    /\ clock < MaxClock
    /\ clock' = clock + 1
    /\ UNCHANGED <<reviews, cache, pc, locals, resp, ops, history>>

(* ---------------------------------------------------------- specifications *)

\* Two requests at a time race for place p, whose reviews are added and
\* removed at any moment; every call to the store and to the model succeeds.
Next ==
    \/ \E text \in {<<>>, <<"a">>}, ts \in 1..MaxTs :
          TotalReviews < MaxReviewsConc /\ AppendReview(<<"p">>, text, ts)
    \/ \E i \in 1..MaxReviewsConc : RemoveReview(<<"p">>, i)
    \/ \E c \in Calls : Request(c, <<" ", "p">>)
    \/ \E c \in Calls : Query(c)
    \/ \E c \in Calls : CacheGet(c)
    \/ \E c \in Calls, out \in {<<"s">>, <<"t", " ">>} : Generate(c, out)
    \/ \E c \in Calls : CacheSet(c)
    \/ \E c \in Calls : Return(c)

Spec == Init /\ [][Next]_vars

\* Two requests at a time race for place p, whose reviews (with a text) are
\* added and removed at any moment; the source of every cache document is
\* recorded.
NextTrace ==
    \/ \E ts \in 1..MaxTs :
          TotalReviews < MaxReviewsConc /\ AppendReview(<<"p">>, <<"a">>, ts)
    \/ \E i \in 1..MaxReviewsConc : RemoveReview(<<"p">>, i)
    \/ \E c \in Calls : Request(c, <<" ", "p">>)
    \/ \E c \in Calls : Query(c)
    \/ \E c \in Calls : CacheGet(c)
    \/ \E c \in Calls, out \in {<<"s">>, <<"t", " ">>} : Generate(c, out)
    \/ \E c \in Calls : CacheSet(c)
    \/ \E c \in Calls : Return(c)

SpecTrace == InitTrace /\ [][NextTrace]_vars

\* No request is in flight.
Quiet == \A c \in Calls : pc[c] = "idle"

\* One request at a time; the reviews of place p change between requests:
\* they are added, removed and made empty.
NextSeq ==
    \/ \E text \in {<<>>, <<" ", "b">>}, ts \in {NoTs} \cup (1..MaxTsSeq) :
          Quiet /\ TotalReviews < MaxReviewsSeq /\ AppendReview(<<"p">>, text, ts)
    \/ \E i \in 1..MaxReviewsSeq : Quiet /\ RemoveReview(<<"p">>, i)
    \/ \E i \in 1..MaxReviewsSeq : Quiet /\ BlankReview(<<"p">>, i)
    \/ \E a \in {<<>>, <<" ">>, <<"p">>} : Request("r1", a)
    \/ Query("r1")
    \/ CacheGet("r1")
    \/ \E out \in OutputTexts : Generate("r1", out)
    \/ CacheSet("r1")
    \/ Except("r1")
    \/ Return("r1")
    \/ Quiet /\ Tick

SpecSeq == InitSeq /\ [][NextSeq]_vars

\* One request at a time; reviews of place p are only added, up to the
\* whole fetch window and one document more.
NextAppend ==
    \/ \E text \in {<<>>, <<" ", "b">>}, ts \in 1..MaxTs :
          Quiet /\ AppendReview(<<"p">>, text, ts)
    \/ \E a \in {<<>>, <<" ">>, <<"p">>} : Request("r1", a)
    \/ Query("r1")
    \/ CacheGet("r1")
    \/ \E out \in OutputTexts : Generate("r1", out)
    \/ CacheSet("r1")
    \/ Except("r1")
    \/ Return("r1")
    \/ Quiet /\ Tick

SpecAppend == InitSeq /\ [][NextAppend]_vars

\* One request over any store of at most MaxReviews reviews of place p:
\* the reviews are added before the request arrives.
NextPrompt ==
    \/ \E d \in ReviewDocs : Quiet /\ AppendReview(<<"p">>, d.text, d.created_at)
    \/ Request("r1", <<"p", " ">>)
    \/ Query("r1")
    \/ CacheGet("r1")
    \/ Generate("r1", <<"s", " ">>)
    \/ CacheSet("r1")

SpecPrompt == InitSeq /\ [][NextPrompt]_vars

\* One request at a time for place p, whose reviews are only added, at any
\* moment and with any created_at: a new one, one that exists already, or
\* none.
NextStale ==
    \/ \E text \in {<<>>, <<"a">>, <<" ", "b">>}, ts \in {NoTs} \cup (1..MaxTs) :
          AppendReview(<<"p">>, text, ts)
    \/ Request("r1", <<"p">>)
    \/ Query("r1")
    \/ CacheGet("r1")
    \/ Generate("r1", <<"s">>)
    \/ CacheSet("r1")
    \/ Return("r1")

SpecStale == InitTrace /\ [][NextStale]_vars

\* The reviews change no more.
Frozen == clock = MaxClock

\* Two requests at a time race for place p, whose reviews (with a text) are
\* added and removed until some moment and then stay as they are; the
\* generation returns a non-empty text and no call fails.
NextFair ==
    \/ \E ts \in 1..MaxTs :
          /\ ~Frozen
          /\ TotalReviews < MaxReviewsConc
          /\ AppendReview(<<"p">>, <<"a">>, ts)
    \/ \E i \in 1..MaxReviewsConc : ~Frozen /\ RemoveReview(<<"p">>, i)
    \/ Tick
    \/ \E c \in Calls : Request(c, <<"p">>)
    \/ \E c \in Calls : Query(c)
    \/ \E c \in Calls : CacheGet(c)
    \/ \E c \in Calls : Generate(c, <<"s">>)
    \/ \E c \in Calls : CacheSet(c)
    \/ \E c \in Calls : Return(c)

\* A request that has started gets every answer it waits for and returns.
Fairness ==
    \A c \in Calls :
        /\ WF_vars(Query(c))
        /\ WF_vars(CacheGet(c))
        /\ WF_vars(Generate(c, <<"s">>))
        /\ WF_vars(CacheSet(c))
        /\ WF_vars(Return(c))

SpecFair == Init /\ [][NextFair]_vars /\ Fairness

\* The stores of reviews that the requests for two places run over.
FrameStores ==
    {<<>>,
     <<[text |-> <<"a">>, created_at |-> 1]>>,
     <<[text |-> <<" ", "b">>, created_at |-> 2], [text |-> <<>>, created_at |-> 1]>>}

InitFrame ==
    /\ \E store \in [Places -> FrameStores] : StartWith(store)
    /\ recording = FALSE
    /\ tracing = FALSE

\* Two requests at a time, for any of two places.
NextFrame ==
    \/ \E c \in Calls, a \in {<<" ">>, <<"p">>, <<"q", " ">>} : Request(c, a)
    \/ \E c \in Calls : Query(c)
    \/ \E c \in Calls : CacheGet(c)
    \/ \E c \in Calls, out \in {<<"s">>, <<"t", " ">>} : Generate(c, out)
    \/ \E c \in Calls : CacheSet(c)
    \/ \E c \in Calls : Except(c)
    \/ \E c \in Calls : Return(c)

SpecFrame == InitFrame /\ [][NextFrame]_vars

(* ------------------------------------------------------------------ claims *)

\* s is empty or consists of blanks only.
IsBlank(s) == \A i \in 1..Len(s) : s[i] = " "

\* The review texts of docs that are not blank, in the order of docs.
RECURSIVE NonBlankTexts(_)
NonBlankTexts(ds) ==
    IF ds = <<>> THEN <<>>
    ELSE IF IsBlank(ds[Len(ds)].text)
         THEN NonBlankTexts(SubSeq(ds, 1, Len(ds) - 1))
         ELSE Append(NonBlankTexts(SubSeq(ds, 1, Len(ds) - 1)),
                     ds[Len(ds)].text)

\* The tokens of s cut at every sep.
RECURSIVE SplitOn(_, _)
SplitOn(s, sep) ==
    IF \A i \in 1..Len(s) : s[i] # sep THEN <<s>>
    ELSE LET k == CHOOSE i \in 1..Len(s) :
                     s[i] = sep /\ \A j \in 1..(i - 1) : s[j] # sep
         IN  <<SubSeq(s, 1, k - 1)>> \o SplitOn(SubSeq(s, k + 1, Len(s)), sep)

\* The request of slot c has answered.
Answered(c) == pc[c] = "done"

\* C10: a request whose place_id parameter is empty or whitespace-only is
\* answered at once with the invalid-input response (400); it has queried no
\* reviews, read and written no cache document and called no generation, and
\* the cache collection is as it was.
C10_InvalidInputNoEffects ==
    \A c \in Calls :
        (pc[c] # "idle" /\ IsBlank(arg[c])) =>
            /\ Answered(c)
            /\ resp[c].status = 400
            /\ resp[c].error = "place_id is required"
            /\ ops[c] = NoOps
            /\ cache = before[c]

\* C10 witness: a whitespace-only place_id was refused while a cache
\* document exists.
C10_Witness ==
    \E c \in Calls :
        /\ Answered(c)
        /\ arg[c] = <<" ">>
        /\ resp[c].status = 400
        /\ DOMAIN cache # {}

\* C5: when none of the fetched reviews has a non-blank text, the request
\* answers summary "", source_review_count 0, cached true after the one
\* reviews query, with no generation call, no cache read and no cache write,
\* whether or not a cache document exists and whatever the reviews'
\* timestamps are (or the reviews query itself failed).
C5_EmptyCorpusShortCircuit ==
    \A c \in Calls :
        (/\ Answered(c)
         /\ place_id[c] \in Places
         /\ \A i \in 1..Len(QueryReviews(place_id[c])) :
               IsBlank(QueryReviews(place_id[c])[i].text)) =>
            /\ cache = before[c]
            /\ \/ /\ resp[c] = [status |-> 200, summary |-> <<>>,
                                source_review_count |-> 0, cached |-> TRUE]
                  /\ ops[c] = [query |-> 1, get |-> 0, gen |-> 0, set |-> 0]
               \/ /\ resp[c].status = 500
                  /\ resp[c].error = "query"
                  /\ ops[c] = [query |-> 1, get |-> 0, gen |-> 0, set |-> 0]

\* C5 witness: the short circuit was taken for a place that has a cache
\* document and a blank review carrying a timestamp.
C5_Witness ==
    \E c \in Calls :
        /\ Answered(c)
        /\ place_id[c] \in DOMAIN cache
        /\ \E i \in 1..Len(QueryReviews(place_id[c])) :
              QueryReviews(place_id[c])[i].created_at > 0
        /\ resp[c].status = 200
        /\ resp[c].source_review_count = 0
        /\ resp[c].cached

\* The cache document the request of slot c found is valid for the
\* fingerprint it computed.
FoundValid(c) ==
    /\ place_id[c] \in DOMAIN before[c]
    /\ before[c][place_id[c]].summary # <<>>
    /\ before[c][place_id[c]].source_review_count = Len(written[c])
    /\ before[c][place_id[c]].source_latest_review_at = latest_ts[c]

\* C4: a request with a non-empty corpus that did not fail answers
\* cached true exactly when a cache document exists with a non-empty summary,
\* the computed count and the computed latest_ts; it then returns the stored
\* summary, count and updated_at, calls no generation and leaves the cache
\* collection as it was; otherwise it calls the generation and answers
\* cached false.
C4_HitExactlyOnValidity ==
    \A c \in Calls :
        (Answered(c) /\ resp[c].status = 200 /\ written[c] # <<>>) =>
            /\ resp[c].cached <=> FoundValid(c)
            /\ FoundValid(c) =>
                  /\ resp[c].summary = before[c][place_id[c]].summary
                  /\ resp[c].source_review_count =
                        before[c][place_id[c]].source_review_count
                  /\ resp[c].updated_at = before[c][place_id[c]].updated_at
                  /\ ops[c].gen = 0
                  /\ ops[c].set = 0
                  /\ cache = before[c]
            /\ ~FoundValid(c) => (ops[c].gen = 1 /\ ops[c].set = 1)

\* C4 witness: a hit on a document stamped after time 0, for a corpus of
\* more than one text.
C4_Witness ==
    \E c \in Calls :
        /\ Answered(c)
        /\ resp[c].status = 200
        /\ Len(written[c]) > 1
        /\ resp[c].cached
        /\ resp[c].updated_at > 0

\* C9: on the miss path the prompt is the preamble followed by the first
\* min(n, PromptLimit) of the n non-blank fetched texts, stripped, most recent
\* first, joined by the delimiter, and nothing else; the count returned and
\* the count stored are n.
C9_PromptTruncation ==
    \A c \in Calls :
        (Answered(c) /\ resp[c].status = 200 /\ ~resp[c].cached) =>
            LET texts == NonBlankTexts(QueryReviews(place_id[c]))
                n == Len(texts)
                k == IF n < PromptLimit THEN n ELSE PromptLimit
                parts == SplitOn(Tail(prompt[c]), DELIM)
            IN  /\ Head(prompt[c]) = PREAMBLE
                /\ Len(parts) = k
                /\ \A i \in 1..k : parts[i] = Strip(texts[i])
                /\ resp[c].source_review_count = n
                /\ cache[place_id[c]].source_review_count = n

\* C9 witness: a miss over more non-blank texts than the prompt takes, the
\* first three of them pairwise different.
C9_Witness ==
    \E c \in Calls :
        /\ Answered(c)
        /\ resp[c].status = 200
        /\ ~resp[c].cached
        /\ Len(written[c]) > PromptLimit
        /\ written[c][1] # written[c][2]
        /\ written[c][3] # written[c][1]
        /\ written[c][3] # written[c][2]

\* C1 as claimed: a request that did not fail, whose predecessor for the place
\* did not fail either and met the same fetched reviews (with a non-blank text
\* among them), answers cached true with the predecessor's summary, and the
\* two called the generation at most once together, whatever the generation
\* returned.
C1_AsClaimed ==
    \A c \in Calls :
        (/\ Answered(c)
         /\ resp[c].status = 200
         /\ since[c].valid
         /\ written[c] # <<>>) =>
            /\ resp[c].cached
            /\ resp[c].summary = since[c].summary
            /\ since[c].gen + ops[c].gen <= 1

\* C1, amended: the same, when the predecessor's summary (the stripped text
\* the generation returned, or the stored one) is not empty.
C1_IdempotentOnFixedCorpus ==
    \A c \in Calls :
        (/\ Answered(c)
         /\ resp[c].status = 200
         /\ since[c].valid
         /\ since[c].summary # <<>>
         /\ written[c] # <<>>) =>
            /\ resp[c].cached
            /\ resp[c].summary = since[c].summary
            /\ since[c].gen + ops[c].gen <= 1

\* C1 witness: the predecessor generated a summary and this request got it
\* from the cache.
C1_Witness ==
    \E c \in Calls :
        /\ Answered(c)
        /\ resp[c].status = 200
        /\ since[c].valid
        /\ since[c].gen = 1
        /\ since[c].summary # <<>>
        /\ Len(written[c]) > 1
        /\ resp[c].cached
        /\ ops[c].gen = 0

\* C2 as claimed: the first request to query the reviews after a review was
\* added with a created_at newer than the stored source_latest_review_at of
\* an existing cache document answers cached false and calls the generation,
\* in every state of the fetch window.
C2_AsClaimed ==
    \A c \in Calls :
        (Answered(c) /\ resp[c].status = 200 /\ tag[c] = "newer") =>
            (~resp[c].cached /\ ops[c].gen = 1)

\* C2, amended: the same, when the fetched reviews still hold a non-blank
\* text after the addition.
C2_NewerReviewInvalidates ==
    \A c \in Calls :
        (/\ Answered(c)
         /\ resp[c].status = 200
         /\ tag[c] = "newer"
         /\ written[c] # <<>>) =>
            (~resp[c].cached /\ ops[c].gen = 1)

\* C2 witness: the window was full, the added review pushed the oldest one
\* out, and the request regenerated.
C2_Witness ==
    \E c \in Calls :
        /\ Answered(c)
        /\ resp[c].status = 200
        /\ tag[c] = "newer"
        /\ Len(reviews[place_id[c]]) > FetchLimit
        /\ IsBlank(reviews[place_id[c]][1].text)
        /\ ~resp[c].cached
        /\ ops[c].gen = 1

\* C3 as claimed: the first request to query the reviews after a review was
\* removed or blanked, so that the count differs from the stored
\* source_review_count of an existing cache document, calls the generation
\* and answers cached false, for every new count.
C3_AsClaimed ==
    \A c \in Calls :
        (Answered(c) /\ resp[c].status = 200 /\ tag[c] = "count") =>
            (~resp[c].cached /\ ops[c].gen = 1)

\* C3, amended: the same, when the new count is not 0.
C3_CountChangeInvalidates ==
    \A c \in Calls :
        (/\ Answered(c)
         /\ resp[c].status = 200
         /\ tag[c] = "count"
         /\ written[c] # <<>>) =>
            (~resp[c].cached /\ ops[c].gen = 1)

\* C3 witness: the count changed, latest_ts did not, and the request
\* regenerated.
C3_Witness ==
    \E c \in Calls :
        /\ Answered(c)
        /\ resp[c].status = 200
        /\ tag[c] = "count"
        /\ latest_ts[c] = before[c][place_id[c]].source_latest_review_at
        /\ ~resp[c].cached
        /\ ops[c].gen = 1

\* C6: a request that answers 500 names the step that failed, made no step
\* after it, and leaves the cache collection as it was when the request
\* arrived.
C6_NoPartialWrite ==
    \A c \in Calls :
        (Answered(c) /\ resp[c].status = 500) =>
            /\ cache = before[c]
            /\ \/ resp[c].error = "query"
                  /\ ops[c] = [query |-> 1, get |-> 0, gen |-> 0, set |-> 0]
               \/ resp[c].error = "cache_get"
                  /\ ops[c] = [query |-> 1, get |-> 1, gen |-> 0, set |-> 0]
               \/ resp[c].error = "generate"
                  /\ ops[c] = [query |-> 1, get |-> 1, gen |-> 1, set |-> 0]
               \/ resp[c].error = "cache_set"
                  /\ ops[c] = [query |-> 1, get |-> 1, gen |-> 1, set |-> 1]

\* C6 witness: the generation failed for a place that has a stale cache
\* document.
C6_Witness ==
    \E c \in Calls :
        /\ Answered(c)
        /\ resp[c].status = 500
        /\ resp[c].error = "generate"
        /\ place_id[c] \in DOMAIN cache
        /\ cache[place_id[c]].source_review_count # Len(written[c])

\* Some step of the request of slot c.
Step(c) ==
    \/ Query(c)
    \/ CacheGet(c)
    \/ \E out \in OutputTexts : Generate(c, out)
    \/ CacheSet(c)
    \/ Return(c)

\* C7: whatever two overlapping requests for one place do, each cache
\* document is, field for field, the data of the last set() on it (the later
\* write wins and no document mixes two writes), and a request in flight can
\* always take its next step (no interleaving blocks it).
C7_LastWriteWins ==
    /\ DOMAIN cache = DOMAIN lastSet
    /\ \A p \in DOMAIN cache : cache[p] = lastSet[p]
    /\ \A c \in Calls : pc[c] # "idle" => ENABLED Step(c)

\* C7 witness: two requests for the same place with the same fingerprint
\* both missed, both generated (different summaries) and both stored; the
\* document is the one of the later set().  Two misses on one fingerprint
\* with non-empty summaries happen only when the requests overlap.
C7_Witness ==
    /\ \A c \in Calls :
          /\ Answered(c)
          /\ resp[c].status = 200
          /\ ~resp[c].cached
          /\ resp[c].summary # <<>>
          /\ ops[c].gen = 1
          /\ ops[c].set = 1
    /\ place_id["r1"] = place_id["r2"]
    /\ written["r1"] = written["r2"]
    /\ latest_ts["r1"] = latest_ts["r2"]
    /\ resp["r1"].summary # resp["r2"].summary
    /\ cache[place_id["r1"]].summary = resp["r2"].summary
    /\ cache[place_id["r1"]] = lastSet[place_id["r1"]]

\* The request of slot c took a step.
Stepped(c) == pc'[c] # pc[c]

\* C8: a step of a request leaves all reviews as they are and leaves the
\* cache document of every place but its own as it is (present or absent);
\* the cache collection changes only in the set() of the miss path, once
\* per request.  So what a request for another place reads (its reviews and
\* its cache document) is the same before and after the step: steps of
\* requests for different places commute.
C8_Frame ==
    [][\A c \in Calls :
          Stepped(c) =>
             /\ reviews' = reviews
             /\ \A p \in ((DOMAIN cache) \cup (DOMAIN cache')) \ {place_id[c]} :
                   /\ p \in DOMAIN cache
                   /\ p \in DOMAIN cache'
                   /\ cache'[p] = cache[p]
             /\ cache' # cache =>
                   /\ pc[c] = "cache_set"
                   /\ ops[c].set = 0
                   /\ ops'[c].set = 1
                   /\ resp'[c].status = 200
                   /\ ~resp'[c].cached
             /\ \A d \in Calls \ {c} :
                   place_id[d] # place_id[c] =>
                      /\ QueryReviews(place_id[d])' = QueryReviews(place_id[d])
                      /\ (place_id[d] \in DOMAIN cache) =>
                            cache'[place_id[d]] = cache[place_id[d]]]_vars

\* C8 witness: two requests for different places have both stored their
\* summaries, and a third outcome (invalid input) is seen next to a stored
\* document.
C8_Witness ==
    /\ \A c \in Calls :
          /\ Answered(c)
          /\ resp[c].status = 200
          /\ ~resp[c].cached
    /\ place_id["r1"] # place_id["r2"]
    /\ DOMAIN cache = Places
    /\ cache[place_id["r1"]].summary # cache[place_id["r2"]].summary

\* C11: a step never removes a cache document; a step that creates the
\* document of a place or changes it is the set() of a request for that place
\* whose generation call returned (one generation call, no failure), and the
\* document then holds that request's summary and fingerprint.
C11_MonotoneLifecycle ==
    [][/\ DOMAIN cache \subseteq DOMAIN cache'
       /\ \A p \in DOMAIN cache' :
             (p \notin DOMAIN cache \/ cache'[p] # cache[p]) =>
                \E c \in Calls :
                   /\ place_id[c] = p
                   /\ pc[c] = "cache_set"
                   /\ ops[c].gen = 1
                   /\ ops'[c].set = 1
                   /\ resp'[c].status = 200
                   /\ ~resp'[c].cached
                   /\ cache'[p].summary = summary_text[c]
                   /\ cache'[p].source_review_count = Len(written[c])
                   /\ cache'[p].source_latest_review_at = latest_ts[c]]_vars

\* C11 witness: the document of one place was created and then overwritten by
\* a second request for it, while the document of the other place, created
\* earlier, is still there.
C11_Witness ==
    /\ \A c \in Calls :
          /\ Answered(c)
          /\ resp[c].status = 200
          /\ ~resp[c].cached
          /\ ops[c].set = 1
    /\ place_id["r1"] = place_id["r2"]
    /\ DOMAIN cache = Places
    /\ \E p \in Places : p # place_id["r1"] /\ cache[p].summary # <<>>

\* The created_at values of docs that are not null.
Carried(ds) == {ds[i].created_at : i \in 1..Len(ds)} \ {NoTs}

\* The largest element of a non-empty set of numbers.
Largest(S) == CHOOSE x \in S : \A y \in S : y <= x

\* C12: once a request has the answer of the reviews query, its count is the
\* number of fetched reviews whose text is not blank, and its latest_ts is the
\* largest created_at among the fetched reviews that carry one, whatever their
\* text and for every created_at value, 0 included; it is null only when no
\* fetched review carries a created_at.
C12_Fingerprint ==
    \A c \in Calls :
        pc[c] \notin {"idle", "query"} =>
            LET got == QueryReviews(place_id[c])
            IN  /\ Len(written[c]) =
                      Cardinality({i \in 1..Len(got) : ~IsBlank(got[i].text)})
                /\ latest_ts[c] =
                      IF Carried(got) = {} THEN NoTs ELSE Largest(Carried(got))

\* C13: whatever overlapping requests and changes of the reviews do, every
\* cache document holds the summary that one request generated from the prompt
\* it built from the documents its reviews query returned, together with the
\* count and latest_ts that same request computed from those documents.
C13_SummaryWithItsFingerprint ==
    \A p \in DOMAIN cache :
        /\ p \in DOMAIN source
        /\ cache[p].summary = source[p].summary
        /\ source[p].prompt = BuildPrompt(Written(source[p].docs))
        /\ cache[p].source_review_count = Len(Written(source[p].docs))
        /\ cache[p].source_latest_review_at = LatestTs(source[p].docs, NoTs)

\* C13 witness: two overlapping requests met different reviews, both stored,
\* and the document left is the one of the older reviews, which are not the
\* ones of the place any more.
C13_Witness ==
    /\ \A c \in Calls :
          /\ Answered(c)
          /\ resp[c].status = 200
          /\ ~resp[c].cached
          /\ place_id[c] = <<"p">>
    /\ docs["r1"] # docs["r2"]
    /\ source[<<"p">>].docs # QueryReviews(<<"p">>)
    /\ cache[<<"p">>].source_latest_review_at #
          LatestTs(QueryReviews(<<"p">>), NoTs)
    /\ cache[<<"p">>].summary # <<>>

\* C14: a request calls the generation at most once and set() at most once.
\* When it has answered: a miss shows one generation call and one set(); a
\* hit, the empty-corpus answer and the invalid-input answer show none; a
\* failure of the generation call shows that one call and no set(); and an
\* answered request calls nothing more.
C14_NoRetries ==
    \A c \in Calls :
        /\ ops[c].gen <= 1
        /\ ops[c].set <= 1
        /\ Answered(c) =>
              /\ ~ENABLED (\E out \in OutputTexts : Generate(c, out))
              /\ ~ENABLED CacheSet(c)
              /\ ~ENABLED Except(c)
              /\ resp[c].status = 400 => (ops[c].gen = 0 /\ ops[c].set = 0)
              /\ resp[c].status = 200 =>
                    IF resp[c].cached
                    THEN ops[c].gen = 0 /\ ops[c].set = 0
                    ELSE ops[c].gen = 1 /\ ops[c].set = 1
              /\ resp[c].status = 500 =>
                    /\ ops[c].gen = (IF resp[c].error \in {"generate", "cache_set"}
                                     THEN 1 ELSE 0)
                    /\ ops[c].set = (IF resp[c].error = "cache_set" THEN 1 ELSE 0)

\* C14 witness: the first request for a place failed in the generation call
\* and answered 500 after that one call, with nothing stored.
C14_Witness ==
    \E c \in Calls :
        /\ Answered(c)
        /\ resp[c].status = 500
        /\ resp[c].error = "generate"
        /\ ops[c].gen = 1
        /\ ops[c].set = 0
        /\ Len(written[c]) > 1
        /\ place_id[c] \notin DOMAIN cache

\* C15: while reviews are only added, a request that answers cached true
\* with a non-empty summary returns a summary that was generated from the
\* prompt the request itself would have built: the texts that went into the
\* stored summary are the first PromptLimit texts of its own written list.
C15_HitNeverStale ==
    \A c \in Calls :
        (/\ Answered(c)
         /\ resp[c].status = 200
         /\ resp[c].cached
         /\ resp[c].summary # <<>>) =>
            source[place_id[c]].prompt = BuildPrompt(written[c])

\* The cache document of p is valid for the reviews p has now.
Fresh(p) ==
    /\ p \in DOMAIN cache
    /\ CacheValid(cache[p], Len(Written(QueryReviews(p))),
                  LatestTs(QueryReviews(p), NoTs))

\* C16: when every request that has started completes, then from some
\* moment on, once the reviews have stopped changing, every request that
\* answers has found the cache valid: it answers cached true and has called
\* no generation.
C16_Converges ==
    <>[](Frozen =>
            \A c \in Calls :
                Answered(c) =>
                    /\ resp[c].status = 200
                    /\ resp[c].cached
                    /\ ops[c].gen = 0)

\* C16 witness: after the reviews stopped changing, a request holding older
\* reviews stored its summary with their fingerprint, so the document is not
\* valid for the reviews of the place (which have a non-empty text), while
\* the other request is under way.
C16_Witness ==
    /\ Frozen
    /\ Written(QueryReviews(<<"p">>)) # <<>>
    /\ Answered("r2")
    /\ ~resp["r2"].cached
    /\ ops["r2"].set = 1
    /\ latest_ts["r2"] # LatestTs(QueryReviews(<<"p">>), NoTs)
    /\ cache[<<"p">>].updated_at = MaxClock
    /\ ~Fresh(<<"p">>)
    /\ pc["r1"] = "cache_get"
    /\ written["r1"] = Written(QueryReviews(<<"p">>))
    /\ latest_ts["r1"] = LatestTs(QueryReviews(<<"p">>), NoTs)

====
